---- MODULE Spec2Model ----
(***************************************************************************)
(* The venue planner of src/app.py: load_data() normalises venues.csv, and *)
(* every run of the script filters the normalised table by the widget      *)
(* values and renders the result.                                          *)
(*                                                                         *)
(* Text is a sequence of one-character strings, so that substring tests,   *)
(* case folding, regular-expression matching and int() are computed.  An   *)
(* empty CSV cell is NaN.  Columns are keyed by their header names (after  *)
(* the strip of line 17), and a table row keeps its pandas index label.    *)
(***************************************************************************)
EXTENDS Integers, Sequences, FiniteSets

VARIABLES raw_file, pc, venues, event_type, selected_location, attendees,
          budget, venue_type, selected_amenities, filtered_venues, shown, csv

vars == <<raw_file, pc, venues, event_type, selected_location, attendees,
          budget, venue_type, selected_amenities, filtered_venues, shown, csv>>

-----------------------------------------------------------------------------
(* Bounds of the model. *)

\* longest raw Capacity cell enumerated exhaustively
MaxCellLen == 3
\* most rows of a file of the load specification
MaxLoadRows == 2
\* most rows of a file of the session specification
MaxRows == 2

-----------------------------------------------------------------------------
(* Text *)

\* an empty cell of the file: pandas reads it as the float NaN
NaN == <<"nan">>
IsNaN(x) == x = NaN

Range(s) == {s[i] : i \in 1..Len(s)}

UpperCase == <<"A","B","C","D","E","F","G","H","I","J","K","L","M",
               "N","O","P","Q","R","S","T","U","V","W","X","Y","Z">>
LowerCase == <<"a","b","c","d","e","f","g","h","i","j","k","l","m",
               "n","o","p","q","r","s","t","u","v","w","x","y","z">>

UpperSet == Range(UpperCase)
LowerOf == [c \in UpperSet |-> LowerCase[CHOOSE i \in 1..26 : UpperCase[i] = c]]
LowerChar(c) == IF c \in UpperSet THEN LowerOf[c] ELSE c

\* str.lower()
Lower(s) == [i \in 1..Len(s) |-> LowerChar(s[i])]

\* Python's `needle in hay` for two strings: needle occurs as a substring
StrIn(needle, hay) ==
    \E k \in 0..(Len(hay) - Len(needle)) :
        \A i \in 1..Len(needle) : hay[k + i] = needle[i]

Digits == <<"0","1","2","3","4","5","6","7","8","9">>
IsDigit(c) == \E i \in 1..10 : Digits[i] = c
DigitVal(c) == (CHOOSE i \in 1..10 : Digits[i] = c) - 1

\* the number of leading decimal digits of s from position p on (regex \d+ is greedy)
RECURSIVE DigitRun(_, _)
DigitRun(s, p) ==
    IF p <= Len(s) /\ IsDigit(s[p]) THEN 1 + DigitRun(s, p + 1) ELSE 0

\* re.match(r"^\d+(-\d+)?$", s)
MatchCapacityPattern(s) ==
    LET n1 == DigitRun(s, 1) IN
    /\ n1 >= 1
    /\ \/ n1 = Len(s)
       \/ /\ n1 + 1 <= Len(s)
          /\ s[n1 + 1] = "-"
          /\ LET n2 == DigitRun(s, n1 + 2) IN
             n2 >= 1 /\ n1 + 1 + n2 = Len(s)

\* s.split("-")[-1]: what follows the last hyphen, or all of s
LastField(s) ==
    IF \E i \in 1..Len(s) : s[i] = "-"
    THEN LET k == CHOOSE i \in 1..Len(s) :
                    s[i] = "-" /\ \A j \in (i + 1)..Len(s) : s[j] # "-"
         IN SubSeq(s, k + 1, Len(s))
    ELSE s

RECURSIVE DecimalValue(_)
DecimalValue(s) ==
    IF s = <<>> THEN 0
    ELSE 10 * DecimalValue(SubSeq(s, 1, Len(s) - 1)) + DigitVal(s[Len(s)])

AllDigits(s) == s # <<>> /\ \A i \in 1..Len(s) : IsDigit(s[i])

\* Python's int(x) for a cell: raises ValueError (ok = FALSE) for NaN and for
\* text that is not an optionally signed run of digits
PyInt(x) ==
    IF IsNaN(x) \/ x = <<>> THEN [ok |-> FALSE, val |-> 0]
    ELSE IF x[1] \in {"-", "+"}
         THEN IF AllDigits(Tail(x))
              THEN [ok |-> TRUE,
                    val |-> IF x[1] = "-" THEN 0 - DecimalValue(Tail(x))
                                          ELSE DecimalValue(Tail(x))]
              ELSE [ok |-> FALSE, val |-> 0]
         ELSE IF AllDigits(x) THEN [ok |-> TRUE, val |-> DecimalValue(x)]
              ELSE [ok |-> FALSE, val |-> 0]

-----------------------------------------------------------------------------
(* Loader: load_data *)

None == [isnull |-> TRUE, val |-> 0]
Some(n) == [isnull |-> FALSE, val |-> n]

\* a faulty variant: the lower bound of a range instead of the upper one
parse_capacity_first(cap) ==
    IF ~IsNaN(cap) /\ MatchCapacityPattern(cap)
    THEN Some(DecimalValue(SubSeq(cap, 1, DigitRun(cap, 1))))
    ELSE IF PyInt(cap).ok THEN Some(PyInt(cap).val) ELSE None

parse_capacity(cap) ==
    IF ~IsNaN(cap) /\ MatchCapacityPattern(cap)
    THEN Some(PyInt(LastField(cap)).val)
    ELSE IF PyInt(cap).ok THEN Some(PyInt(cap).val) ELSE None

\* Series.replace({"₹": "", ",": ""}, regex=True) on one cell
RECURSIVE StripCurrency(_)
StripCurrency(x) ==
    IF IsNaN(x) \/ x = <<>> THEN x
    ELSE IF x[1] \in {"₹", ","} THEN StripCurrency(Tail(x))
         ELSE <<x[1]>> \o StripCurrency(Tail(x))

\* one cell of .astype(int)
parse_budget(x) == PyInt(StripCurrency(x))

-----------------------------------------------------------------------------
(* Tables *)

Columns == {"Venue Name", "Location", "Capacity", "Type", "Budget",
            "Event Type", "Available Equipments"}

\* the columns the script reads through the .str accessor
StrColumns == {"Type", "Event Type"}

NoTable == [dtypes |-> [c \in StrColumns |-> "object"], rows |-> <<>>]

\* pd.read_csv: the rows under a RangeIndex; a text column whose cells are all
\* empty is inferred as float64, any other as object
read_csv(file) ==
    [dtypes |-> [c \in StrColumns |->
                    IF file # <<>> /\ \A i \in 1..Len(file) : IsNaN(file[i][c])
                    THEN "float64" ELSE "object"],
     rows |-> [i \in 1..Len(file) |-> [index |-> i - 1, cells |-> file[i]]]]

\* line 28: the Capacity column after .apply(parse_capacity)
ApplyParseCapacity(rows) ==
    [i \in 1..Len(rows) |->
        [rows[i] EXCEPT !.cells["Capacity"] = parse_capacity(@)]]

\* lines 29-30: dropna(subset=["Capacity"]), then astype(int)
DropNaCapacity(rows) ==
    LET Kept(r) == ~r.cells["Capacity"].isnull
        kept == SelectSeq(rows, Kept)
    IN [i \in 1..Len(kept) |->
           [kept[i] EXCEPT !.cells["Capacity"] = @.val]]

\* a faulty variant: a row whose Budget does not convert is skipped, like a bad Capacity
ConvertBudget_skip(rows) ==
    LET Good(r) == parse_budget(r.cells["Budget"]).ok
        kept == SelectSeq(rows, Good)
    IN [ok |-> TRUE,
        rows |-> [i \in 1..Len(kept) |->
                    [kept[i] EXCEPT !.cells["Budget"] = parse_budget(@).val]]]

\* line 33: replace(...).astype(int) raises on the first cell that int() refuses
ConvertBudget(rows) ==
    IF \E i \in 1..Len(rows) : ~parse_budget(rows[i].cells["Budget"]).ok
    THEN [ok |-> FALSE, rows |-> <<>>]
    ELSE [ok |-> TRUE,
          rows |-> [i \in 1..Len(rows) |->
                      [rows[i] EXCEPT !.cells["Budget"] = parse_budget(@).val]]]

\* load_data(): ok = FALSE when it raises, and then there is no table
load_data(file) ==
    LET df == read_csv(file)
        converted == ConvertBudget(DropNaCapacity(ApplyParseCapacity(df.rows)))
    IN IF converted.ok
       THEN [ok |-> TRUE, table |-> [df EXCEPT !.rows = converted.rows]]
       ELSE [ok |-> FALSE, table |-> NoTable]

-----------------------------------------------------------------------------
(* Widgets: lines 52-71 *)

Any == <<"A","n","y">>
Wedding == <<"W","e","d","d","i","n","g">>
Birthday == <<"B","i","r","t","h","d","a","y">>
Indoor == <<"I","n","d","o","o","r">>
Outdoor == <<"O","u","t","d","o","o","r">>
Mic == <<"M","i","c">>
Projector == <<"P","r","o","j","e","c","t","o","r">>

\* the widgets' initial values: index 0 of each selectbox and radio, value= of
\* each slider, nothing selected in the multiselect
DefaultAttendees == 100
DefaultBudget == 50000
DefaultCriteria ==
    [event_type |-> Wedding, selected_location |-> Any,
     attendees |-> DefaultAttendees, budget |-> DefaultBudget,
     venue_type |-> Indoor, selected_amenities |-> {}]

\* the selections explored, each a subset of its widget's options
EventTypeChoices == {Wedding, Birthday}
AttendeeChoices == {100, 110}
BudgetChoices == {45000, 50000}
VenueTypeChoices == {Indoor, Outdoor, Any}
AmenityChoices == {Mic, Projector}

\* line 57-58: "Any" and the distinct values of the Location column
LocationOptions(v) ==
    {Any} \cup {v.rows[i].cells["Location"] : i \in 1..Len(v.rows)}

\* the widget values after the user changes one widget of cur
WidgetChanges(v, cur) ==
    {[cur EXCEPT !.event_type = x] : x \in EventTypeChoices}
    \cup {[cur EXCEPT !.selected_location = x] : x \in LocationOptions(v)}
    \cup {[cur EXCEPT !.attendees = x] : x \in AttendeeChoices}
    \cup {[cur EXCEPT !.budget = x] : x \in BudgetChoices}
    \cup {[cur EXCEPT !.venue_type = x] : x \in VenueTypeChoices}
    \cup {[cur EXCEPT !.selected_amenities = @ \cup {x}] : x \in AmenityChoices}
    \cup {[cur EXCEPT !.selected_amenities = @ \ {x}] : x \in AmenityChoices}

-----------------------------------------------------------------------------
(* Filter: lines 78-93.  Each stage yields err = TRUE when the line raises. *)

\* Series.str.contains(pat, case=False, na=False) on one cell, for a pattern
\* without regular-expression metacharacters
StrContainsNoCase(cell, pat) ==
    ~IsNaN(cell) /\ StrIn(Lower(pat), Lower(cell))

\* a faulty variant: a venue must be strictly larger than the party
BaseFilter_strict(v, c) ==
    IF v.dtypes["Event Type"] # "object"
    THEN [err |-> TRUE, rows |-> <<>>]
    ELSE LET Keep(r) == /\ r.cells["Capacity"] > c.attendees
                        /\ r.cells["Budget"] <= c.budget
                        /\ StrContainsNoCase(r.cells["Event Type"], c.event_type)
         IN [err |-> FALSE, rows |-> SelectSeq(v.rows, Keep)]

\* lines 78-82; the .str accessor raises AttributeError on a float64 column
BaseFilter(v, c) ==
    IF v.dtypes["Event Type"] # "object"
    THEN [err |-> TRUE, rows |-> <<>>]
    ELSE LET Keep(r) == /\ r.cells["Capacity"] >= c.attendees
                        /\ r.cells["Budget"] <= c.budget
                        /\ StrContainsNoCase(r.cells["Event Type"], c.event_type)
         IN [err |-> FALSE, rows |-> SelectSeq(v.rows, Keep)]

\* lines 84-85
TypeFilter(v, rows, c) ==
    IF c.venue_type = Any THEN [err |-> FALSE, rows |-> rows]
    ELSE IF v.dtypes["Type"] # "object" THEN [err |-> TRUE, rows |-> rows]
    ELSE LET Keep(r) == /\ ~IsNaN(r.cells["Type"])
                        /\ Lower(r.cells["Type"]) = Lower(c.venue_type)
         IN [err |-> FALSE, rows |-> SelectSeq(rows, Keep)]

\* lines 87-88
LocationFilter(rows, c) ==
    IF c.selected_location = Any THEN rows
    ELSE LET Keep(r) == r.cells["Location"] = c.selected_location
         IN SelectSeq(rows, Keep)

\* a faulty variant: any() where the code has all()
HasAmenities_any(x, amenities) == \E item \in amenities : StrIn(item, x)

\* line 92: all(item in x for item in selected_amenities), x a string
HasAmenities(x, amenities) == \A item \in amenities : StrIn(item, x)

\* lines 90-93; `item in x` raises TypeError when x is the float NaN
AmenityFilter(rows, c) ==
    IF c.selected_amenities = {} THEN [err |-> FALSE, rows |-> rows]
    ELSE IF \E i \in 1..Len(rows) : IsNaN(rows[i].cells["Available Equipments"])
    THEN [err |-> TRUE, rows |-> rows]
    ELSE LET Keep(r) == HasAmenities(r.cells["Available Equipments"],
                                     c.selected_amenities)
         IN [err |-> FALSE, rows |-> SelectSeq(rows, Keep)]

\* a faulty variant: the result ranked, last row first
RECURSIVE Reverse(_)
Reverse(s) == IF s = <<>> THEN <<>> ELSE Reverse(Tail(s)) \o <<Head(s)>>
ApplyFilters_ranked(v, c) ==
    LET s1 == BaseFilter(v, c)
        s2 == TypeFilter(v, s1.rows, c)
        s3 == LocationFilter(s2.rows, c)
        s4 == AmenityFilter(s3, c)
    IN IF s1.err THEN s1 ELSE IF s2.err THEN s2
       ELSE [err |-> s4.err, rows |-> Reverse(s4.rows)]

\* lines 78-93: err = TRUE when a line raised, rows = filtered_venues as it
\* was last bound
ApplyFilters(v, c) ==
    LET s1 == BaseFilter(v, c)
        s2 == TypeFilter(v, s1.rows, c)
        s3 == LocationFilter(s2.rows, c)
        s4 == AmenityFilter(s3, c)
    IN IF s1.err THEN s1 ELSE IF s2.err THEN s2 ELSE s4

-----------------------------------------------------------------------------
(* Display: lines 99-109 *)

DisplayColumns == {"Venue Name", "Location", "Capacity", "Type", "Budget",
                   "Event Type"}

Nothing == [columns |-> {}, rows |-> <<>>]

\* df[[...]]: the rows restricted to the named columns
Project(rows, cols) ==
    [columns |-> cols,
     rows |-> [i \in 1..Len(rows) |-> [k \in cols |-> rows[i].cells[k]]]]

\* a faulty variant: the export restricted like the on-screen table
to_csv_restricted(rows) == Project(rows, DisplayColumns)

\* line 106: filtered_venues.to_csv(index=False), every column of the frame
to_csv(rows) == Project(rows, Columns)

-----------------------------------------------------------------------------
(* The files explored *)

Row(cap, bud, loc, typ, ev, eq) ==
    [k \in Columns |->
        CASE k = "Venue Name" -> <<"H","a","l","l">>
          [] k = "Location" -> loc
          [] k = "Capacity" -> cap
          [] k = "Type" -> typ
          [] k = "Budget" -> bud
          [] k = "Event Type" -> ev
          [] k = "Available Equipments" -> eq]

Pune == <<"P","u","n","e">>
MicProjector == <<"M","i","c",",","P","r","o","j","e","c","t","o","r">>
Cap50to100 == <<"5","0","-","1","0","0">>
Rs50000 == <<"₹","5","0",",","0","0","0">>

SeqsUpTo(S, n) == UNION {[1..k -> S] : k \in 1..n}

\* raw Capacity cells: every text of up to MaxCellLen characters, and the empty cell
CellAlphabet == {"1", "2", "-", "a"}
AllCells == SeqsUpTo(CellAlphabet, MaxCellLen) \cup {NaN}

CapacitySamples ==
    {<<"1","0","0","-","5","0","0">>, <<"5","0","0","-","1","0","0">>,
     <<"1","0","0">>, <<"0","0","7">>, <<"a","b","c">>, <<"-","5">>,
     <<"1","-","2","-","3">>, NaN}
BudgetSamples ==
    {<<"₹","2","0",",","0","0","0">>, <<"2","5","0","0","0">>,
     <<"-","5","0","0","0">>, <<"x","y","z">>, <<"₹">>, NaN}

\* files of the load specification: one row with any Capacity cell, or up to
\* MaxLoadRows rows of the sampled Capacity and Budget cells
LoadFiles ==
    {<<Row(cap, Rs50000, Pune, Indoor, Wedding, MicProjector)>> : cap \in AllCells}
    \cup SeqsUpTo({Row(cap, bud, Pune, Indoor, Wedding, MicProjector) :
                      cap \in CapacitySamples, bud \in BudgetSamples},
                  MaxLoadRows)

\* the venue list of the session specification: one venue, and the venues
\* that differ from it in one field
SessionVenues ==
    << Row(Cap50to100, Rs50000, Pune, Indoor, Wedding, MicProjector),
       Row(Cap50to100, Rs50000, <<"p","u","n","e">>, Indoor, Wedding, MicProjector),
       Row(Cap50to100, Rs50000, Pune, <<"i","n","d","o","o","r">>, Wedding, MicProjector),
       Row(Cap50to100, Rs50000, Pune, Outdoor, Wedding, MicProjector),
       Row(Cap50to100, Rs50000, Pune, NaN, Wedding, MicProjector),
       Row(Cap50to100, Rs50000, Pune, Indoor, <<"W","E","D","D","I","N","G","S">>, MicProjector),
       Row(Cap50to100, Rs50000, Pune, Indoor, Birthday, MicProjector),
       Row(Cap50to100, Rs50000, Pune, Indoor, NaN, MicProjector),
       Row(Cap50to100, Rs50000, Pune, Indoor, Wedding,
           <<"M","i","c","r","o","p","h","o","n","e">>),
       Row(Cap50to100, Rs50000, Pune, Indoor, Wedding, NaN),
       Row(<<"a","b","c">>, Rs50000, Pune, Indoor, Wedding, MicProjector) >>

\* the rows of s at the positions in S, in the order of s
RECURSIVE Pick(_, _)
Pick(s, S) ==
    IF S = {} THEN <<>>
    ELSE LET m == CHOOSE i \in S : \A j \in S : i <= j
         IN <<s[m]>> \o Pick(s, S \ {m})

\* files of the session specification: up to MaxRows venues of the list
SessionFiles ==
    {Pick(SessionVenues, S) :
        S \in {T \in SUBSET (1..Len(SessionVenues)) :
                  Cardinality(T) >= 1 /\ Cardinality(T) <= MaxRows}}

-----------------------------------------------------------------------------
(* The script: one run per page load or widget interaction *)

\* lines 78-109 with the widgets at c
Render(v, c) ==
    LET f == ApplyFilters(v, c)
        found == ~f.err /\ f.rows # <<>>
    IN /\ event_type' = c.event_type
       /\ selected_location' = c.selected_location
       /\ attendees' = c.attendees
       /\ budget' = c.budget
       /\ venue_type' = c.venue_type
       /\ selected_amenities' = c.selected_amenities
       /\ filtered_venues' = f.rows
       /\ pc' = IF f.err THEN "filter_failed"
                ELSE IF f.rows = <<>> THEN "no_results" ELSE "results"
       /\ shown' = IF found THEN Project(f.rows, DisplayColumns) ELSE Nothing
       /\ csv' = IF found THEN to_csv(f.rows) ELSE Nothing

\* the first run: load_data() misses the cache and reads the file; when it
\* raises the script stops at line 38
Start ==
    /\ pc = "init"
    /\ LET l == load_data(raw_file) IN
       IF l.ok
       THEN venues' = l.table /\ Render(l.table, DefaultCriteria)
       ELSE /\ pc' = "load_failed"
            /\ UNCHANGED <<venues, event_type, selected_location, attendees,
                           budget, venue_type, selected_amenities,
                           filtered_venues, shown, csv>>
    /\ UNCHANGED raw_file

\* a faulty variant: the filter rebinds the table it read
Rerun_rebinding(c) ==
    /\ pc \in {"results", "no_results", "filter_failed"}
    /\ venues' = [venues EXCEPT !.rows = ApplyFilters(venues, c).rows]
    /\ Render(venues, c)
    /\ UNCHANGED raw_file

\* a later run: load_data() answers from the cache, the filter reads venues
Rerun(c) ==
    /\ pc \in {"results", "no_results", "filter_failed"}
    /\ venues' = venues
    /\ Render(venues, c)
    /\ UNCHANGED raw_file

Criteria ==
    [event_type |-> event_type, selected_location |-> selected_location,
     attendees |-> attendees, budget |-> budget, venue_type |-> venue_type,
     selected_amenities |-> selected_amenities]

\* the user changes a widget and the script runs again
Interact == \E c \in WidgetChanges(venues, Criteria) : Rerun(c)

InitCommon ==
    /\ pc = "init"
    /\ venues = NoTable
    /\ event_type = DefaultCriteria.event_type
    /\ selected_location = DefaultCriteria.selected_location
    /\ attendees = DefaultCriteria.attendees
    /\ budget = DefaultCriteria.budget
    /\ venue_type = DefaultCriteria.venue_type
    /\ selected_amenities = DefaultCriteria.selected_amenities
    /\ filtered_venues = <<>>
    /\ shown = Nothing
    /\ csv = Nothing

Init == raw_file \in SessionFiles /\ InitCommon
Next == Start \/ Interact
Spec == Init /\ [][Next]_vars

InitLoad == raw_file \in LoadFiles /\ InitCommon
NextLoad == Start
SpecLoad == InitLoad /\ [][NextLoad]_vars

-----------------------------------------------------------------------------
(* Properties of the loader, under SpecLoad *)

Loaded == pc \in {"results", "no_results", "filter_failed"}

RowAt(label) == {venues.rows[j] : j \in {k \in 1..Len(venues.rows) :
                                            venues.rows[k].index = label}}

\* the cell grammar of the file format: INTEGER, and INTEGER "-" INTEGER
IsLoneNumber(cell) == ~IsNaN(cell) /\ AllDigits(cell)
IsRangeAt(cell, k) ==
    /\ cell[k] = "-"
    /\ AllDigits(SubSeq(cell, 1, k - 1))
    /\ AllDigits(SubSeq(cell, k + 1, Len(cell)))
IsNumberRange(cell) == ~IsNaN(cell) /\ \E k \in 1..Len(cell) : IsRangeAt(cell, k)
UpperOfRange(cell) ==
    LET k == CHOOSE i \in 1..Len(cell) : IsRangeAt(cell, i)
    IN DecimalValue(SubSeq(cell, k + 1, Len(cell)))
IsSignedInteger(text) ==
    /\ ~IsNaN(text)
    /\ \/ AllDigits(text)
       \/ Len(text) >= 2 /\ text[1] \in {"-", "+"} /\ AllDigits(Tail(text))
CapacityParses(cell) ==
    IsLoneNumber(cell) \/ IsNumberRange(cell) \/ IsSignedInteger(cell)

\* C3: every row of the normalized table has a non-negative integer Capacity
\* and a non-negative integer Budget, whatever the raw cells were.
C3NonNegative ==
    Loaded => \A j \in 1..Len(venues.rows) :
                 /\ venues.rows[j].cells["Capacity"] \in Nat
                 /\ venues.rows[j].cells["Budget"] \in Nat

WithoutSymbols(cell) ==
    LET Kept(ch) == ch \notin {"₹", ","} IN SelectSeq(cell, Kept)
BudgetNonNumeric(cell) == IsNaN(cell) \/ ~IsSignedInteger(WithoutSymbols(cell))

OnlyBadCapacityRemoved ==
    Loaded => \A i \in 1..Len(raw_file) :
                 RowAt(i - 1) # {} <=> CapacityParses(raw_file[i]["Capacity"])

\* C6 as stated: a non-numeric Budget cell in any row of the file fails the
\* whole load, and rows are removed only for an unparseable Capacity.
C6AnyBadBudgetFails ==
    /\ (pc # "init" /\ \E i \in 1..Len(raw_file) :
                           BudgetNonNumeric(raw_file[i]["Budget"]))
           => pc = "load_failed"
    /\ OnlyBadCapacityRemoved

\* C6 amended: the load fails exactly when a row whose Capacity parses has a
\* non-numeric Budget cell; a row with an unparseable Capacity is removed
\* before its Budget is converted; rows are removed only for such a Capacity.
C6BadBudgetOfKeptRowFails ==
    /\ pc # "init" =>
          (pc = "load_failed" <=>
              \E i \in 1..Len(raw_file) :
                  /\ CapacityParses(raw_file[i]["Capacity"])
                  /\ BudgetNonNumeric(raw_file[i]["Budget"]))
    /\ OnlyBadCapacityRemoved

C6Witness ==
    /\ Loaded
    /\ Len(raw_file) = 2
    /\ Len(venues.rows) = 1
    /\ \E i \in 1..2 : /\ BudgetNonNumeric(raw_file[i]["Budget"])
                       /\ ~CapacityParses(raw_file[i]["Capacity"])

-----------------------------------------------------------------------------
(* Properties of the filter, under Spec *)

Completed == pc \in {"results", "no_results"}

InResult(r) == \E j \in 1..Len(filtered_venues) : filtered_venues[j] = r

SameLetter(a, b) ==
    a = b \/ \E i \in 1..26 : {a, b} = {UpperCase[i], LowerCase[i]}
EqualsIgnoringCase(s, t) ==
    Len(s) = Len(t) /\ \A i \in 1..Len(s) : SameLetter(s[i], t[i])
OccursIgnoringCase(pat, text) ==
    \E k \in 0..(Len(text) - Len(pat)) :
        \A i \in 1..Len(pat) : SameLetter(text[k + i], pat[i])

\* the five conditions of the filter contract for one row; an empty field
\* contains and equals nothing
MeetsCriteria(r) ==
    /\ r.cells["Capacity"] >= attendees
    /\ r.cells["Budget"] <= budget
    /\ ~IsNaN(r.cells["Event Type"])
    /\ OccursIgnoringCase(event_type, r.cells["Event Type"])
    /\ venue_type # Any =>
          /\ ~IsNaN(r.cells["Type"])
          /\ EqualsIgnoringCase(r.cells["Type"], venue_type)
    /\ selected_location # Any => r.cells["Location"] = selected_location

\* C1: with no amenities requested, a row of the table is in the filter result
\* if and only if it meets the capacity, budget, event type, venue type and
\* location conditions.
C1ConjunctiveFilter ==
    (Completed /\ selected_amenities = {}) =>
        \A i \in 1..Len(venues.rows) :
            InResult(venues.rows[i]) <=> MeetsCriteria(venues.rows[i])

C1Witness ==
    /\ pc = "results"
    /\ selected_amenities = {}
    /\ venue_type = Indoor
    /\ selected_location = Pune
    /\ Len(venues.rows) = 2
    /\ Len(filtered_venues) = 1
    /\ filtered_venues[1].cells["Capacity"] = attendees
    /\ filtered_venues[1].cells["Budget"] = budget

\* the amenity tags of an Available Equipments field: its comma-separated parts
RECURSIVE Tags(_)
Tags(x) ==
    IF \E i \in 1..Len(x) : x[i] = ","
    THEN LET k == CHOOSE i \in 1..Len(x) :
                    x[i] = "," /\ \A j \in 1..(i - 1) : x[j] # ","
         IN {SubSeq(x, 1, k - 1)} \cup Tags(SubSeq(x, k + 1, Len(x)))
    ELSE {x}

\* C2: with amenities requested, every row of the result has every requested
\* amenity among its amenity tags.
C2AmenityTags ==
    (Completed /\ selected_amenities # {}) =>
        \A j \in 1..Len(filtered_venues) :
            selected_amenities \subseteq
                Tags(filtered_venues[j].cells["Available Equipments"])

\* C5: the filter computation never raises.
C5FilterNeverRaises == pc # "filter_failed"

\* C7 as stated: the exported file has exactly the six displayed columns.
C7ExportSixColumns ==
    pc = "results" => csv.columns = DisplayColumns

\* C7 amended: the exported file has every column of the table, Available
\* Equipments included, for exactly the filtered rows; only the table shown
\* on screen is restricted to the six columns; nothing is exported without a
\* result.
C7ExportAllColumns ==
    /\ pc = "results" =>
          /\ csv.columns = DOMAIN venues.rows[1].cells
          /\ "Available Equipments" \in csv.columns
          /\ csv.rows = [j \in 1..Len(filtered_venues) |-> filtered_venues[j].cells]
          /\ shown.columns = DisplayColumns
    /\ pc # "results" => csv = Nothing

C7Witness ==
    /\ pc = "results"
    /\ Len(csv.rows) = 2
    /\ ~IsNaN(csv.rows[1]["Available Equipments"])

RECURSIVE IsSubsequence(_, _)
IsSubsequence(s, t) ==
    IF s = <<>> THEN TRUE
    ELSE IF t = <<>> THEN FALSE
    ELSE IF Head(s) = Head(t) THEN IsSubsequence(Tail(s), Tail(t))
    ELSE IsSubsequence(s, Tail(t))

\* C8: the filter result is a stable subsequence of the table: its rows are
\* rows of the table, none repeated, in the table's order.
C8StableSubsequence == IsSubsequence(filtered_venues, venues.rows)

C8Witness ==
    /\ pc = "results"
    /\ Len(filtered_venues) = 2
    /\ venue_type # Any
    /\ selected_location # Any
    /\ selected_amenities # {}

\* this step adds an amenity to the request and changes no other widget
AddsAmenity ==
    /\ selected_amenities \subseteq selected_amenities'
    /\ selected_amenities # selected_amenities'
    /\ <<event_type, selected_location, attendees, budget, venue_type>>'
         = <<event_type, selected_location, attendees, budget, venue_type>>

\* C9: a run that requests one amenity more than the run before it, all else
\* equal, shows no row the run before did not show; after a run that raised
\* it raises again and shows nothing.
C9AmenityMonotonic ==
    [][/\ (Completed /\ Completed' /\ AddsAmenity)
           => Range(filtered_venues') \subseteq Range(filtered_venues)
       /\ (pc = "filter_failed" /\ AddsAmenity)
           => (pc' = "filter_failed" /\ shown' = Nothing)]_vars

C9Witness ==
    /\ pc = "results"
    /\ selected_amenities = {Mic, Projector}
    /\ Len(venues.rows) = 2
    /\ Len(filtered_venues) = 1
    /\ \E i \in 1..2 : venues.rows[i].cells["Available Equipments"]
                          = <<"M","i","c","r","o","p","h","o","n","e">>

\* C10: after the load the table is never changed, and the result of a run is
\* the filter of the loaded table by the current widget values, whatever runs
\* came before.
C10TableReadOnly ==
    Loaded =>
        /\ venues = load_data(raw_file).table
        /\ filtered_venues = ApplyFilters(load_data(raw_file).table, Criteria).rows
        /\ (pc = "filter_failed") = ApplyFilters(load_data(raw_file).table, Criteria).err

C10Witness ==
    /\ pc = "results"
    /\ venue_type = Any
    /\ attendees = 100
    /\ event_type = Birthday
    /\ Len(venues.rows) = 2
    /\ Len(filtered_venues) = 1

====
